---------------------------- MODULE Spec2Model ----------------------------
(***************************************************************************)
(* Model of ethpredictiontft.py: a straight-line pipeline                  *)
(*   fetch -> prepare -> window -> train -> predict -> report.             *)
(* Timestamps are integers (Unix seconds).  A price bar keeps its time and *)
(* its close; the other columns take no part in the data-shaping steps.    *)
(* Calls into pandas, pytorch_forecasting and pytorch_lightning are        *)
(* modelled at their call site by what the call does with the arguments    *)
(* and defaults the script passes.                                         *)
(***************************************************************************)
EXTENDS Integers, Sequences, FiniteSets, TLC

VARIABLES
    pc,               \* position of the script: the stage about to run
    failedAt,         \* stage whose uncaught exception ended the run, or "none"
    httpGets,         \* number of HTTP GETs issued
    outcome,          \* how the GET and the parsing of its body went
    ran,              \* stage -> number of times the stage has been entered
    df,               \* the fetched table: sequence of [time, close]
    time_idx,         \* the derived column df['time_idx'] (one entry per row)
    training_cutoff,  \* df["time"].max() - 7 days
    train_df,         \* the frame passed to the training TimeSeriesDataSet
    training,         \* the training TimeSeriesDataSet (NoDataset before)
    validation,       \* the validation TimeSeriesDataSet (NoDataset before)
    current_epoch,    \* trainer: epochs completed
    best_score,       \* EarlyStopping.best_score
    wait_count,       \* EarlyStopping.wait_count
    val_loss_finite,  \* whether the last logged "val_loss" is finite
    lagging,          \* history: consecutive epochs that did not improve on
                      \* best_score by at least min_delta
    stalled,          \* history: consecutive epochs that did not improve on
                      \* best_score by more than min_delta
    prediction_df,    \* the printed table: sequence of [Date, Predicted_Price]
    printed,          \* the prediction table has been printed
    plotted           \* the plot has been shown

vars == <<pc, failedAt, httpGets, outcome, ran, df, time_idx, training_cutoff,
          train_df, training, validation, current_epoch, best_score,
          wait_count, val_loss_finite, lagging, stalled, prediction_df,
          printed, plotted>>

-----------------------------------------------------------------------------
(* Program constants *)

MAX_ENCODER_LENGTH == 365
MAX_PREDICTION_LENGTH == 7
\* seconds in pd.Timedelta(days=1); the unit of .dt.days
Day == 86400
\* Trainer(max_epochs=100)
max_epochs == 100
\* EarlyStopping(patience=10)
patience == 10
\* EarlyStopping(min_delta=1e-4): losses are counted in units of 1e-4
min_delta == 1
\* min_prediction_length=1
min_prediction_length == 1

(* Bounds of the model *)

\* tables of 1..SmallRows rows (far too short for any window)
SmallRows == 3
\* row counts within Slack of the shortest windowable table and of the
\* shortest table holding a full-length training window
Slack == 1
\* val_loss takes the values 0..LossLevels (units of 1e-4) or NaN; the finer
\* grid of FitSpec is the one that exercises the training loop in full
LossLevels == 0
\* under FitSpec val_loss lies on a grid of 2e-4 with Descents + 1 levels
\* (enough for an improvement every tenth epoch up to max_epochs), or is the
\* one value 1e-4 off the grid, or NaN
Descents == 9
\* a float: NaN is the one non-finite value a loss takes here; best_score
\* starts at +infinity
NaN == [finite |-> FALSE, value |-> 0]
Inf == [finite |-> FALSE, value |-> 1]
Float(v) == [finite |-> TRUE, value |-> v]

Stages == {"fetch", "prepare", "training", "validation", "train", "predict",
           "report"}

Min(a, b) == IF a <= b THEN a ELSE b
Max(a, b) == IF a >= b THEN a ELSE b

-----------------------------------------------------------------------------
(* The API response: what requests.get(...).json()['Data']['Data'] holds. *)

\* total rows needed: an encoder of min length + 1 step in the training
\* split, plus the 7 held-out days
ShortestUsable == MAX_ENCODER_LENGTH \div 2 + min_prediction_length + MAX_PREDICTION_LENGTH
LongestWindow == MAX_ENCODER_LENGTH + MAX_PREDICTION_LENGTH + MAX_PREDICTION_LENGTH

RowCounts ==
    (1 .. SmallRows)
    \cup ((ShortestUsable - Slack) .. (ShortestUsable + Slack))
    \cup ((LongestWindow - Slack) .. (LongestWindow + Slack))

\* (spike: whether the close of the last bar is one above the pattern)
\* a daily series; a daily series with one day missing; a series with two
\* bars inside one day; a daily series with two neighbouring rows swapped
Kinds == {"daily", "gap", "intraday", "unordered"}

\* where the anomaly of a non-daily table sits: early, or in the last week
Anomalies(n) == {a \in {1, n - 2} : a >= 1 /\ a < n}

Responses ==
    {r \in [kind : Kinds, n : RowCounts, at : 0 .. (LongestWindow + Slack),
            spike : {0, 1}] :
        IF r.kind = "daily" THEN r.at = 0
        ELSE r.at \in Anomalies(r.n) /\ r.spike = 0}

BarTime(r, i) ==
    CASE r.kind = "daily" -> (i - 1) * Day
      [] r.kind = "gap" -> (i - 1) * Day + (IF i > r.at THEN Day ELSE 0)
      [] r.kind = "intraday" ->
            IF i <= r.at THEN (i - 1) * Day
            ELSE IF i = r.at + 1 THEN (r.at - 1) * Day + Day \div 2
            ELSE (i - 2) * Day
      [] r.kind = "unordered" ->
            IF i = r.at THEN i * Day
            ELSE IF i = r.at + 1 THEN (i - 2) * Day
            ELSE (i - 1) * Day

BarClose(r, i) == 10 + (i % 4) + (IF i = r.n THEN r.spike ELSE 0)

\* fetch_data's frame: one row per bar, 'time' converted from Unix seconds
Frame(r) == [i \in 1 .. r.n |-> [time |-> BarTime(r, i), close |-> BarClose(r, i)]]

\* the one table FitSpec feeds the training loop with
FitResponses == {[kind |-> "daily", n |-> ShortestUsable, at |-> 0, spike |-> 0]}

\* requests.get raises; response.json() raises; the body lacks Data.Data; ok
Outcomes == {"connection_error", "not_json", "no_data_path", "ok"}

\* variant: the body is read with .get('Data', {}).get('Data', []), so a
\* body without the path yields an empty table instead of an exception
FetchRaisesLenient(o) == o \in {"connection_error", "not_json"}

\* does fetch_data raise on this outcome?
FetchRaises(o) == o # "ok"

-----------------------------------------------------------------------------
(* pandas column helpers *)

\* the smallest and the largest 'time' among rows lo..hi of a frame
RECURSIVE MinTime(_, _, _)
MinTime(frame, lo, hi) ==
    IF lo = hi THEN frame[lo].time
    ELSE LET mid == (lo + hi) \div 2
         IN Min(MinTime(frame, lo, mid), MinTime(frame, mid + 1, hi))

RECURSIVE MaxTime(_, _, _)
MaxTime(frame, lo, hi) ==
    IF lo = hi THEN frame[lo].time
    ELSE LET mid == (lo + hi) \div 2
         IN Max(MaxTime(frame, lo, mid), MaxTime(frame, mid + 1, hi))

\* df['time'].min() and df['time'].max() of a frame with at least one row
ColMin(frame) == MinTime(frame, 1, Len(frame))
ColMax(frame) == MaxTime(frame, 1, Len(frame))

\* variant: the timedelta is rounded up to whole days
DaysSinceRoundUp(t, origin) == (t - origin + Day - 1) \div Day

\* .dt.days of the timedelta t - origin: its whole days
DaysSince(t, origin) == (t - origin) \div Day

\* (df['time'] - df['time'].min()).dt.days
TimeIdxColumn(frame) ==
    LET origin == ColMin(frame)
    IN [i \in DOMAIN frame |-> DaysSince(frame[i].time, origin)]

\* df["time"].max() - pd.Timedelta(days=MAX_PREDICTION_LENGTH)
TrainingCutoff(frame) == ColMax(frame) - MAX_PREDICTION_LENGTH * Day

\* variant: the mask x.time < training_cutoff
InTrainingSplitStrict(t, cutoff) == t < cutoff

\* the boolean mask x.time <= training_cutoff
InTrainingSplit(t, cutoff) == t <= cutoff

-----------------------------------------------------------------------------
(* pytorch_forecasting.TimeSeriesDataSet, as the script configures it:     *)
(* one group, allow_missing_timesteps left False, no lags, no randomised   *)
(* lengths.  A dataset frame is a sequence of [time, time_idx, close].     *)

\* df with its time_idx column
WithTimeIdx(frame, idx) ==
    [i \in DOMAIN frame |->
        [time |-> frame[i].time, time_idx |-> idx[i], close |-> frame[i].close]]

\* df[lambda x: x.time <= training_cutoff]
TrainingSplit(frame, idx, cutoff) ==
    SelectSeq(WithTimeIdx(frame, idx), LAMBDA r : InTrainingSplit(r.time, cutoff))

\* data.sort_values(group_ids + [time_idx]) for time_idx within lo..hi: the
\* rows of each time_idx in turn
RECURSIVE SortRange(_, _, _)
SortRange(data, lo, hi) ==
    IF lo = hi THEN SelectSeq(data, LAMBDA r : r.time_idx = lo)
    ELSE LET mid == (lo + hi) \div 2
         IN SortRange(data, lo, mid) \o SortRange(data, mid + 1, hi)

RECURSIVE MaxTimeIdx(_, _, _)
MaxTimeIdx(data, lo, hi) ==
    IF lo = hi THEN data[lo].time_idx
    ELSE LET mid == (lo + hi) \div 2
         IN Max(MaxTimeIdx(data, lo, mid), MaxTimeIdx(data, mid + 1, hi))

\* time_idx is never negative here, so the keys lie in 0..max
SortByTimeIdx(data) == SortRange(data, 0, MaxTimeIdx(data, 1, Len(data)))

\* GroupNormalizer(groups=["group"]).fit on the single group: center is the
\* mean of the target, scale its standard deviation.  Both are kept exactly:
\* the mean as the pair sum : n, and the (sample) variance, which determines
\* the standard deviation, as n*sum(y^2) - sum(y)^2 : n*(n-1).
RECURSIVE SumClose(_, _, _)
SumClose(data, lo, hi) ==
    IF lo = hi THEN data[lo].close
    ELSE LET mid == (lo + hi) \div 2
         IN SumClose(data, lo, mid) + SumClose(data, mid + 1, hi)

RECURSIVE SumSquares(_, _, _)
SumSquares(data, lo, hi) ==
    IF lo = hi THEN data[lo].close * data[lo].close
    ELSE LET mid == (lo + hi) \div 2
         IN SumSquares(data, lo, mid) + SumSquares(data, mid + 1, hi)

RECURSIVE Gcd(_, _)
Gcd(a, b) == IF b = 0 THEN a ELSE Gcd(b, a % b)

\* the fraction num/den in lowest terms; 0/0 stands for NaN
Ratio(num, den) ==
    IF den = 0 THEN [num |-> 0, den |-> 0]
    ELSE [num |-> num \div Gcd(num, den), den |-> den \div Gcd(num, den)]

FitNormalizer(data) ==
    LET n == Len(data)
        s == SumClose(data, 1, n)
    IN [fitted |-> TRUE,
        center |-> Ratio(s, n),
        variance |-> Ratio(n * SumSquares(data, 1, n) - s * s, n * (n - 1))]

NotFitted == [fitted |-> FALSE, center |-> Ratio(0, 0), variance |-> Ratio(0, 0)]

\* variant: half of the maximum, rounded up
MinEncoderLengthRoundUp == (MAX_ENCODER_LENGTH + 1) \div 2

\* min_encoder_length=MAX_ENCODER_LENGTH // 2
MinEncoderLength == MAX_ENCODER_LENGTH \div 2

\* the keyword arguments of the training dataset that shape its windows
TrainingParameters ==
    [min_encoder_length |-> MinEncoderLength,
     max_encoder_length |-> MAX_ENCODER_LENGTH,
     min_prediction_length |-> min_prediction_length,
     max_prediction_length |-> MAX_PREDICTION_LENGTH,
     min_prediction_idx |-> << >>,      \* not passed: taken from the data
     normalizer |-> NotFitted,          \* GroupNormalizer(groups=["group"])
     predict_mode |-> FALSE]

\* _construct_index: time_diff_to_next is 1 on every row but the last of the
\* group, or the constructor's assertion on allow_missing_timesteps fails
HasMissingTimesteps(data) ==
    \E i \in 1 .. (Len(data) - 1) : data[i + 1].time_idx - data[i].time_idx # 1

\* _construct_index: for the window starting at row p, the row it ends at:
\* the last row whose time_idx is at most
\*   min(time + max_sequence_length - 1, time_last)
IndexEnd(data, p, max_sequence_length) ==
    LET max_time == Min(data[p].time_idx + max_sequence_length - 1,
                        data[Len(data)].time_idx)
        ends == {q \in p .. Len(data) : data[q].time_idx <= max_time}
    IN CHOOSE q \in ends : \A o \in ends : o <= q

\* of the candidates of predict mode, the longest; idxmax keeps the first
Longest(data, cands) ==
    {w \in cands :
        \A o \in cands :
            LET lw == data[w[2]].time_idx - data[w[1]].time_idx
                lo == data[o[2]].time_idx - data[o[1]].time_idx
            IN lo < lw \/ (lo = lw /\ w[1] <= o[1])}

\* _construct_index: the windows <<index_start, index_end>> of the dataset
ConstructIndex(data, prm, min_prediction_idx) ==
    LET min_sequence_length == prm.min_prediction_length + prm.min_encoder_length
        max_sequence_length == prm.max_prediction_length + prm.max_encoder_length
        time_last == data[Len(data)].time_idx
        SeqLen(w) == data[w[2]].time_idx - data[w[1]].time_idx + 1
        all == {<<p, IndexEnd(data, p, max_sequence_length)>> : p \in 1 .. Len(data)}
        kept == {w \in all :
                    /\ SeqLen(w) >= min_sequence_length
                    /\ SeqLen(w) + data[w[1]].time_idx
                          >= min_prediction_idx + prm.min_prediction_length}
        cands == {w \in kept :
                    /\ time_last - data[w[1]].time_idx + 1 <= max_sequence_length
                    /\ SeqLen(w) >= min_sequence_length}
    IN IF prm.predict_mode THEN Longest(data, cands) ELSE kept

\* a dataset whose constructor raised (and the value before construction)
NoDataset == [ok |-> FALSE, data |-> << >>, index |-> {},
              parameters |-> TrainingParameters]

\* variant: a dataset without any window is accepted
ConstructorRaisesOnGapsOnly(data, index) ==
    \/ Len(data) = 0
    \/ HasMissingTimesteps(data)

\* does the constructor raise on this (sorted) frame?  No rows, a missing
\* time step with allow_missing_timesteps False, or no window left
ConstructorRaises(data, index) ==
    \/ Len(data) = 0
    \/ HasMissingTimesteps(data)
    \/ index = {}

\* TimeSeriesDataSet(data, **prm)
TimeSeriesDataSet(frame, prm) ==
    IF Len(frame) = 0 THEN NoDataset
    ELSE
      LET data == SortByTimeIdx(frame)
          mpi == IF prm.min_prediction_idx = << >>
                 THEN data[1].time_idx ELSE prm.min_prediction_idx[1]
          norm == IF prm.normalizer.fitted
                  THEN prm.normalizer ELSE FitNormalizer(data)
          index == ConstructIndex(data, prm, mpi)
      IN IF ConstructorRaises(data, index) THEN NoDataset
         ELSE [ok |-> TRUE,
               data |-> data,
               index |-> index,
               parameters |-> [prm EXCEPT !.min_prediction_idx = <<mpi>>,
                                          !.normalizer = norm]]

\* variant: from_dataset without predict=True
PredictParametersNoPredict(prm) ==
    [prm EXCEPT !.min_prediction_length = prm.max_prediction_length]

\* variant: the normalizer is fitted again on the frame it is given
PredictParametersRefit(prm) ==
    [prm EXCEPT !.min_prediction_length = prm.max_prediction_length,
                !.predict_mode = TRUE,
                !.normalizer = NotFitted]

\* from_dataset(training, df, predict=True, stop_randomization=True): the
\* parameters of the training dataset (the fitted normalizer and the resolved
\* min_prediction_idx among them) with min_prediction_length raised to
\* max_prediction_length and predict_mode set
PredictParameters(prm) ==
    [prm EXCEPT !.min_prediction_length = prm.max_prediction_length,
                !.predict_mode = TRUE]

FromDataset(ds, frame) == TimeSeriesDataSet(frame, PredictParameters(ds.parameters))

\* __getitem__ / calculate_decoder_length: the decoder takes the last
\* decoder_length rows of the window, the encoder the rows before them
DecoderLength(ds, w) ==
    LET sequence_length == w[2] - w[1] + 1
    IN Min(Min(ds.data[w[2]].time_idx - (ds.parameters.min_prediction_idx[1] - 1),
               ds.parameters.max_prediction_length),
           sequence_length - ds.parameters.min_encoder_length)

EncoderLength(ds, w) == (w[2] - w[1] + 1) - DecoderLength(ds, w)

\* the rows of the window the decoder is asked to predict
DecoderRows(ds, w) == (w[2] - DecoderLength(ds, w) + 1) .. w[2]
EncoderRows(ds, w) == w[1] .. (w[2] - DecoderLength(ds, w))

-----------------------------------------------------------------------------
(* pytorch_lightning: Trainer(max_epochs=100) with EarlyStopping(monitor=   *)
(* "val_loss", min_delta=1e-4, patience=10, mode="min"), check_finite left   *)
(* at its default True.                                                      *)

Losses == {Float(v) : v \in 0 .. LossLevels} \cup {NaN}
FitLosses == {Float(2 * k) : k \in 0 .. Descents} \cup {Float(1), NaN}

\* mode="min": monitor_op is torch.lt and min_delta is negated, so the test
\* monitor_op(current - min_delta, best_score) is current + 1e-4 < best_score
Improved(current, best) ==
    \/ ~best.finite
    \/ current.value + min_delta < best.value

\* variant: the stop is signalled one check late (wait_count > patience)
EarlyStoppingLate(current, best, wait) ==
    IF ~current.finite THEN <<best, wait, TRUE>>
    ELSE IF Improved(current, best) THEN <<current, 0, FALSE>>
    ELSE <<best, wait + 1, wait + 1 > patience>>

\* _evaluate_stopping_criteria: <<best_score, wait_count, should_stop>> after
\* one check of the monitored value
EarlyStopping(current, best, wait) ==
    IF ~current.finite THEN <<best, wait, TRUE>>
    ELSE IF Improved(current, best) THEN <<current, 0, FALSE>>
    ELSE <<best, wait + 1, wait + 1 >= patience>>

\* the fit loop ends when an epoch asked to stop or max_epochs are done
FitDone(epochs, should_stop) == should_stop \/ epochs >= max_epochs

-----------------------------------------------------------------------------
(* Prediction and report *)

\* variant: pd.Timedelta(days=i)
FutureDatesFromZero(last_known_date, steps) ==
    [k \in 1 .. steps |-> last_known_date + (k - 1) * Day]

\* [last_known_date + pd.Timedelta(days=i+1) for i in range(steps)]
FutureDates(last_known_date, steps) ==
    [k \in 1 .. steps |-> last_known_date + k * Day]

\* the windows of a dataset in the order the loader (train=False) yields them
FirstWindow(ds) == CHOOSE w \in ds.index : \A o \in ds.index : w[1] <= o[1]

\* model.predict(val_dataloader): one output row per window, one value per
\* decoder step; a value is represented by the timestamp of the row its
\* decoder step targets.  This is predicted_prices[0].
PredictedRow(ds) ==
    LET w == FirstWindow(ds)
        first == w[2] - DecoderLength(ds, w)
    IN [k \in 1 .. DecoderLength(ds, w) |-> [target |-> ds.data[first + k].time]]

-----------------------------------------------------------------------------
(* The script *)

Init ==
    /\ pc = "fetch"
    /\ failedAt = "none"
    /\ httpGets = 0
    /\ outcome = "none"
    /\ ran = [s \in Stages |-> 0]
    /\ df = << >>
    /\ time_idx = << >>
    /\ training_cutoff = 0
    /\ train_df = << >>
    /\ training = NoDataset
    /\ validation = NoDataset
    /\ current_epoch = 0
    /\ best_score = Inf
    /\ wait_count = 0
    /\ val_loss_finite = TRUE
    /\ lagging = 0
    /\ stalled = 0
    /\ prediction_df = << >>
    /\ printed = FALSE
    /\ plotted = FALSE

Enter(stage) == ran' = [ran EXCEPT ![stage] = @ + 1]

\* an uncaught exception: the interpreter exits
Abort(stage) == pc' = "aborted" /\ failedAt' = stage

\* the state of the trainer and of its callbacks
fit == <<current_epoch, best_score, wait_count, val_loss_finite, lagging,
         stalled>>
\* what the report stage produces
out == <<prediction_df, printed, plotted>>

\* df = fetch_data(), the API answering with one of responses
FetchFrom(responses) ==
    /\ pc = "fetch"
    /\ Enter("fetch")
    /\ httpGets' = httpGets + 1
    /\ \E o \in Outcomes, r \in responses :
          /\ outcome' = o
          /\ IF FetchRaises(o)
             THEN Abort("fetch") /\ df' = df
             ELSE pc' = "prepare" /\ df' = Frame(r) /\ failedAt' = failedAt
    /\ UNCHANGED <<time_idx, training_cutoff, train_df, training, validation,
                   fit, out>>

Fetch == FetchFrom(Responses)
FetchFit == FetchFrom(FitResponses)

\* time_idx, group and training_cutoff
Prepare ==
    /\ pc = "prepare"
    /\ Enter("prepare")
    /\ time_idx' = TimeIdxColumn(df)
    /\ training_cutoff' = TrainingCutoff(df)
    /\ pc' = "training"
    /\ UNCHANGED <<failedAt, httpGets, outcome, df, train_df, training,
                   validation, fit, out>>

\* training = TimeSeriesDataSet(df[lambda x: x.time <= training_cutoff], ...)
BuildTraining ==
    /\ pc = "training"
    /\ Enter("training")
    /\ train_df' = TrainingSplit(df, time_idx, training_cutoff)
    /\ training' = TimeSeriesDataSet(train_df', TrainingParameters)
    /\ IF training'.ok
       THEN pc' = "validation" /\ failedAt' = failedAt
       ELSE Abort("training")
    /\ UNCHANGED <<httpGets, outcome, df, time_idx, training_cutoff,
                   validation, fit, out>>

\* validation = TimeSeriesDataSet.from_dataset(training, df, predict=True, ...)
BuildValidation ==
    /\ pc = "validation"
    /\ Enter("validation")
    /\ validation' = FromDataset(training, WithTimeIdx(df, time_idx))
    /\ IF validation'.ok
       THEN pc' = "fit" /\ failedAt' = failedAt
       ELSE Abort("validation")
    /\ UNCHANGED <<httpGets, outcome, df, time_idx, training_cutoff, train_df,
                   training, fit, out>>

\* the model, the callbacks and the trainer are built; trainer.fit is entered
StartFit ==
    /\ pc = "fit"
    /\ Enter("train")
    /\ pc' = "train"
    /\ current_epoch' = 0
    /\ best_score' = Inf
    /\ wait_count' = 0
    /\ UNCHANGED <<failedAt, httpGets, outcome, df, time_idx, training_cutoff,
                   train_df, training, validation, val_loss_finite, lagging,
                   stalled, out>>

\* one epoch of trainer.fit: the training steps, the validation steps that
\* log "val_loss", then the EarlyStopping check; a step may raise
TrainEpochOver(losses) ==
    /\ pc = "train"
    /\ \E raised \in BOOLEAN, v \in losses :
          IF raised
          THEN Abort("train") /\ UNCHANGED fit
          ELSE LET es == EarlyStopping(v, best_score, wait_count)
               IN /\ val_loss_finite' = v.finite
                  /\ best_score' = es[1]
                  /\ wait_count' = es[2]
                  /\ current_epoch' = current_epoch + 1
                  /\ lagging' = IF v.finite /\ (~best_score.finite
                                     \/ best_score.value - v.value >= min_delta)
                                THEN 0 ELSE lagging + 1
                  /\ stalled' = IF v.finite /\ (~best_score.finite
                                     \/ best_score.value - v.value > min_delta)
                                THEN 0 ELSE stalled + 1
                  /\ pc' = IF FitDone(current_epoch', es[3])
                           THEN "predict" ELSE "train"
                  /\ failedAt' = failedAt
    /\ UNCHANGED <<httpGets, outcome, ran, df, time_idx, training_cutoff,
                   train_df, training, validation, out>>

TrainEpoch == TrainEpochOver(Losses)
TrainEpochFit == TrainEpochOver(FitLosses)

\* predictions, future_dates and prediction_df
Predict ==
    /\ pc = "predict"
    /\ Enter("predict")
    /\ LET predicted_prices == PredictedRow(validation)
           future_dates == FutureDates(ColMax(df), Len(predicted_prices))
       IN prediction_df' =
             [k \in 1 .. Len(future_dates) |->
                 [Date |-> future_dates[k],
                  Predicted_Price |-> predicted_prices[k]]]
    /\ pc' = "report"
    /\ UNCHANGED <<failedAt, httpGets, outcome, df, time_idx, training_cutoff,
                   train_df, training, validation, fit, printed, plotted>>

\* the prints and the plot
Report ==
    /\ pc = "report"
    /\ Enter("report")
    /\ printed' = TRUE
    /\ plotted' = TRUE
    /\ pc' = "done"
    /\ UNCHANGED <<failedAt, httpGets, outcome, df, time_idx, training_cutoff,
                   train_df, training, validation, fit, prediction_df>>

Next ==
    \/ Fetch
    \/ Prepare
    \/ BuildTraining
    \/ BuildValidation
    \/ StartFit
    \/ TrainEpoch
    \/ Predict
    \/ Report

Spec == Init /\ [][Next]_vars

\* the same script on one table, with a finer grid of losses
NextFit ==
    \/ FetchFit
    \/ Prepare
    \/ BuildTraining
    \/ BuildValidation
    \/ StartFit
    \/ TrainEpochFit
    \/ Predict
    \/ Report

\* every statement of the script, once reached, runs: the interpreter does
\* not pause between statements or between epochs
FitSpec == Init /\ [][NextFit]_vars /\ WF_vars(NextFit)

-----------------------------------------------------------------------------
(* Vocabulary of the claims, stated on the tables themselves *)

RowsOrdered(frame) ==
    \A i \in 1 .. (Len(frame) - 1) : frame[i].time <= frame[i + 1].time

GapFreeDaily(frame) ==
    \A i \in 1 .. (Len(frame) - 1) : frame[i + 1].time = frame[i].time + Day

IsMinTime(frame, t) ==
    /\ \E i \in DOMAIN frame : frame[i].time = t
    /\ \A i \in DOMAIN frame : t <= frame[i].time

IsMaxTime(frame, t) ==
    /\ \E i \in DOMAIN frame : frame[i].time = t
    /\ \A i \in DOMAIN frame : frame[i].time <= t

TimesOf(frame) == {frame[i].time : i \in DOMAIN frame}

\* the stages after the training loop
AfterFit == {"predict", "report", "done"}

-----------------------------------------------------------------------------
(* C1: once the time_idx column is derived, every entry is a non-negative  *)
(* integer counting the whole days between the row's timestamp and the     *)
(* minimum timestamp; the row holding the minimum has time_idx 0; and if   *)
(* the rows are ordered by time, time_idx never decreases with row order.  *)
C1_TimeIdx ==
    ran["prepare"] = 1 =>
        /\ DOMAIN time_idx = DOMAIN df
        /\ \E m \in TimesOf(df) :
              /\ IsMinTime(df, m)
              /\ \A i \in DOMAIN df :
                    /\ time_idx[i] \in Nat
                    /\ time_idx[i] * 86400 <= df[i].time - m
                    /\ df[i].time - m < (time_idx[i] + 1) * 86400
                    /\ (df[i].time = m => time_idx[i] = 0)
        /\ RowsOrdered(df) =>
              \A i \in 1 .. (Len(df) - 1) : time_idx[i] <= time_idx[i + 1]

\* an ordered table with two bars inside one day and a later day
C1_Witness ==
    /\ ran["prepare"] = 1
    /\ RowsOrdered(df)
    /\ \E i \in 1 .. (Len(df) - 1) :
          time_idx[i] = time_idx[i + 1] /\ df[i].time < df[i + 1].time
    /\ time_idx[Len(df)] > 0

(* C2: training_cutoff is max(time) - 7 days; the frame given to the       *)
(* training dataset holds exactly the rows with time <= training_cutoff,   *)
(* all the other rows (time > training_cutoff) being the held-out horizon; *)
(* for a gap-free daily series the held-out rows are the last 7 rows.      *)
C2_Split ==
    ran["training"] = 1 =>
        /\ IsMaxTime(df, training_cutoff + 7 * 86400)
        /\ TimesOf(train_df) = {t \in TimesOf(df) : t <= training_cutoff}
        /\ TimesOf(df) \ TimesOf(train_df) = {t \in TimesOf(df) : t > training_cutoff}
        /\ Len(train_df) = Cardinality(TimesOf(train_df))
        /\ GapFreeDaily(df) =>
              /\ \A i \in DOMAIN df :
                    (df[i].time \notin TimesOf(train_df)) <=> (i > Len(df) - 7)
              /\ \A i \in DOMAIN train_df : train_df[i].time = df[i].time

\* a gap-free daily table with a non-empty training split and 7 held-out rows
C2_Witness ==
    /\ ran["training"] = 1
    /\ GapFreeDaily(df)
    /\ Len(train_df) > 0
    /\ Len(df) - Len(train_df) = 7

(* C3: the dates of the prediction table are last_known_date + 1 day, ...,  *)
(* + 7 days in that order, last_known_date being the maximum timestamp of  *)
(* the table, one date per decoder step of the forecast.                    *)
C3_FutureDates ==
    ran["predict"] = 1 =>
        /\ Len(prediction_df) = 7
        /\ Len(prediction_df) = DecoderLength(validation, FirstWindow(validation))
        /\ \A k \in DOMAIN prediction_df :
              IsMaxTime(df, prediction_df[k].Date - k * 86400)

C3_Witness ==
    /\ pc = "done"
    /\ Len(prediction_df) = 7
    /\ prediction_df[7].Date - prediction_df[1].Date = 6 * 86400

(* C4: the validation dataset holds exactly one window; its decoder covers *)
(* the last 7 time_idx values of the table and its encoder the time_idx    *)
(* values immediately before them, as many as there are up to 365; so the  *)
(* prediction output has a single row and row 0 is the whole forecast.     *)
C4_OneWindow ==
    validation.ok =>
        /\ Cardinality(validation.index) = 1
        /\ \A w \in validation.index :
              LET data == validation.data
                  last == data[Len(data)].time_idx
                  enc == EncoderLength(validation, w)
              IN /\ {data[q].time_idx : q \in DecoderRows(validation, w)}
                       = (last - 6) .. last
                 /\ {data[q].time_idx : q \in EncoderRows(validation, w)}
                       = (last - 6 - enc) .. (last - 7)
                 /\ enc <= 365
                 /\ enc = 365 \/ w[1] = 1
                 /\ w[2] = Len(data)
        /\ ran["predict"] = 1 => Len(prediction_df) = 7

\* a table longer than one full window: the encoder is capped at 365
C4_Witness ==
    /\ validation.ok
    /\ pc = "done"
    /\ \E w \in validation.index : w[1] > 1 /\ EncoderLength(validation, w) = 365

(* C5: fetch_data issues exactly one HTTP GET per run, never a second one; *)
(* when the GET errors or the body lacks Data.Data the run is aborted in   *)
(* fetch_data, and no later stage has run or left any result.              *)
C5_FetchOnce ==
    /\ httpGets <= 1
    /\ ran["fetch"] = 1 => httpGets = 1
    /\ outcome \in {"connection_error", "no_data_path"} =>
          /\ pc = "aborted"
          /\ failedAt = "fetch"
          /\ httpGets = 1
          /\ \A s \in Stages \ {"fetch"} : ran[s] = 0
          /\ Len(df) = 0 /\ Len(time_idx) = 0 /\ Len(train_df) = 0
          /\ ~training.ok /\ ~validation.ok
          /\ current_epoch = 0
          /\ Len(prediction_df) = 0 /\ ~printed /\ ~plotted

C5_Witness ==
    /\ outcome = "no_data_path"
    /\ pc = "aborted"
    /\ httpGets = 1

C6_Safety ==
    /\ current_epoch <= 100
    /\ (pc \in AfterFit /\ current_epoch < 100) =>
          (~val_loss_finite \/ stalled >= 10)
    /\ pc = "train" => (current_epoch < 100 /\ stalled < 10 /\ val_loss_finite)
    /\ pc = "train" => ENABLED TrainEpochFit
    /\ ran["predict"] = 1 => pc \in AfterFit

\* a step of the training loop completes one more epoch or leaves the loop
C6_Progress ==
    pc = "train" =>
        \/ pc' = "train" /\ current_epoch' = current_epoch + 1
        \/ pc' = "predict" /\ current_epoch' = current_epoch + 1
        \/ pc' = "aborted"

C7_Normalizer ==
    /\ training.ok =>
          training.parameters.normalizer =
             FitNormalizer(SelectSeq(df, LAMBDA r : r.time <= training_cutoff))
    /\ validation.ok =>
          validation.parameters.normalizer = training.parameters.normalizer

\* the held-out rows would change the statistics if they were used
C7_Witness ==
    /\ validation.ok
    /\ Len(validation.data) = Len(df)
    /\ FitNormalizer(df) # validation.parameters.normalizer
    /\ df[Len(df)].close # df[Len(df) - 4].close

C9_DatesMatchTargets ==
    ran["predict"] = 1 =>
        \A k \in DOMAIN prediction_df :
            /\ prediction_df[k].Predicted_Price.target = prediction_df[k].Date
            /\ \A i \in DOMAIN df : df[i].time < prediction_df[k].Date

StageOrder == <<"fetch", "prepare", "training", "validation", "train",
                "predict", "report">>

StageNo(s) == CHOOSE i \in DOMAIN StageOrder : StageOrder[i] = s

(* C10: the stages run in the order fetch, prepare, window (training then  *)
(* validation dataset), train, predict, report, each at most once; a       *)
(* failure (failed or malformed fetch, fewer than 182 + 1 rows in the      *)
(* training split, an exception in a step) aborts the run, no later stage  *)
(* runs, and nothing is printed or plotted unless every stage before ran.  *)
C10_FailFast ==
    /\ \A s \in Stages : ran[s] <= 1
    /\ \A i \in 2 .. Len(StageOrder) :
          ran[StageOrder[i]] = 1 => ran[StageOrder[i - 1]] = 1
    /\ pc \in Stages =>
          /\ ran[pc] = 0 \/ pc = "train"
          /\ \A i \in 1 .. (StageNo(pc) - 1) : ran[StageOrder[i]] = 1
    /\ (pc = "aborted") <=> (failedAt # "none")
    /\ failedAt # "none" =>
          /\ ran[failedAt] = 1
          /\ \A i \in (StageNo(failedAt) + 1) .. Len(StageOrder) :
                ran[StageOrder[i]] = 0
          /\ Len(prediction_df) = 0 /\ ~printed /\ ~plotted
    /\ outcome \notin {"none", "ok"} => failedAt = "fetch"
    /\ (ran["training"] = 1 /\ Len(train_df) < 182 + 1) => failedAt = "training"
    /\ (printed \/ plotted) =>
          /\ failedAt = "none"
          /\ printed /\ plotted
          /\ \A s \in Stages : ran[s] = 1

\* a table one row short of a window: the run ends in the window stage
C10_Witness ==
    /\ failedAt = "training"
    /\ Len(train_df) = 182
    /\ GapFreeDaily(df)

=============================================================================
